---- MODULE Spec2Model ----
(***************************************************************************)
(* EmbedFS: a read-only file system over four parallel arrays (names,      *)
(* data, sizes, count) compiled into the firmware image.  The model        *)
(* follows src/src/EmbedFS.cpp: the resolver EmbedFSImpl (open / exists),  *)
(* the handles EmbeddedFileImpl, EmbeddedDirImpl and EmbedFSFile, and the  *)
(* lifecycle wrapper EmbedFSFS.                                            *)
(*                                                                         *)
(* C strings are sequences of one-character strings; a nullable pointer is *)
(* the record NULL or Ref(v), v being what it points to.                   *)
(***************************************************************************)
EXTENDS Integers, Sequences, FiniteSets, TLC

\* ------------------------------------------------------------------ bounds
\* longest entry name and longest query path, in characters
MaxNameLen == 5
\* most entries of an Entry Index
MaxCount == 2
\* longest blob, in bytes
MaxSize == 2
\* longest query path of a client that also remounts, in characters
MaxQueryLen == 2
\* the longest entry name of the indexes whose directories are walked
MaxDirNameLen == 4

\* ------------------------------------------------------------ basic values
NULL == [null |-> TRUE]
Ref(v) == [null |-> FALSE, val |-> v]

Chars == {"/", "a"}
Strings(n) == UNION {[1..k -> Chars] : k \in 0..n}
\* const char *: a string or nullptr
CStrings(n) == {NULL} \cup {Ref(s) : s \in Strings(n)}

Min(a, b) == IF a < b THEN a ELSE b

\* ---------------------------------------------------------- std::string ops
\* s.substr(from) with from counted from 0
substr(s, from) == SubSeq(s, from + 1, Len(s))
\* s.substr(0, n)
substr0(s, n) == SubSeq(s, 1, n)
\* s.find('/'): the 0-based position of the first '/', or -1 for npos
RECURSIVE findFrom(_, _)
findFrom(s, i) ==
    IF i > Len(s) THEN -1
    ELSE IF s[i] = "/" THEN i - 1
    ELSE findFrom(s, i + 1)
find(s) == findFrom(s, 1)
\* s.compare(0, n, prefix) == 0 for n = prefix.size() <= s.size()
startsWith(s, prefix) ==
    /\ Len(s) >= Len(prefix)
    /\ SubSeq(s, 1, Len(prefix)) = prefix
\* strrchr(s, '/'): the 1-based position of the last '/', or 0
RECURSIVE strrchr(_, _)
strrchr(s, i) ==
    IF i = 0 THEN 0
    ELSE IF s[i] = "/" THEN i
    ELSE strrchr(s, i - 1)

\* while (!p.empty() && p.back() == '/') p.pop_back();
RECURSIVE popTrailing(_)
popTrailing(s) ==
    IF s # <<>> /\ s[Len(s)] = "/" THEN popTrailing(SubSeq(s, 1, Len(s) - 1))
    ELSE s
\* a normalisation that keeps the leading slash
eraseLeading_keepsSlash(s) == s

\* if (!p.empty() && p.front() == '/') p.erase(0, 1);
eraseLeading(s) ==
    IF s # <<>> /\ s[1] = "/" THEN Tail(s) ELSE s
\* the normalisation open and exists apply to the query and to every name
normalize(s) == popTrailing(eraseLeading(s))
\* std::string display = p.empty() ? "/" : "/" + p
displayOf(p) == IF p = <<>> THEN <<"/">> ELSE <<"/">> \o p

\* prefixOf without the separator: "aa" would lie below "a"
prefixOf_noSeparator(p) == p

\* std::string prefix = p.empty() ? std::string() : (p + '/')
prefixOf(p) == IF p = <<>> THEN <<>> ELSE p \o <<"/">>

\* ------------------------------------------------------------ the handles
\* FileImplPtr(): the empty shared pointer
NoImpl == [kind |-> "null", path |-> NULL, name |-> NULL, data |-> NULL,
           size |-> 0, pos |-> 0, owner |-> NULL, entries |-> <<>>, index |-> 0]

\* the _name the two constructors derive from _path
nameOf(path) ==
    IF path.null THEN NULL
    ELSE LET s == path.val
             p == strrchr(s, Len(s))
         IN  IF p > 0 /\ p < Len(s) THEN Ref(SubSeq(s, p + 1, Len(s)))
             ELSE Ref(s)

EmbeddedFileImpl(path, data, size) ==
    [kind |-> "file", path |-> path, name |-> nameOf(path), data |-> data,
     size |-> size, pos |-> 0, owner |-> NULL, entries |-> <<>>, index |-> 0]

\* owner is _owner, the pointer to the EmbedFSImpl that opened the directory:
\* NULL, or Ref(the index it points to)
EmbeddedDirImpl(path, owner, entries) ==
    [kind |-> "dir", path |-> path, name |-> nameOf(path), data |-> NULL,
     size |-> 0, pos |-> 0, owner |-> owner, entries |-> entries, index |-> 0]

\* operator bool of the two implementations, through File::operator bool
\* (an empty pointer is false)
truthy(h) ==
    CASE h.kind = "file" -> ~h.data.null
      [] h.kind = "dir" -> ~h.path.null
      [] OTHER -> FALSE

\* File::isDirectory(): the implementation's answer
isDirectory(h) ==
    CASE h.kind = "file" -> FALSE
      [] h.kind = "dir" -> TRUE
      [] OTHER -> FALSE

\* ------------------------------------------------------------ the resolver
\* An EmbedFSImpl is [names_, data_, sizes_, count_].
EmbedFSImpl(names, data, sizes, count) ==
    [names_ |-> names, data_ |-> data, sizes_ |-> sizes, count_ |-> count]

\* exactMatch keeping the last match instead of returning at the first
RECURSIVE exactMatch_lastWins(_, _, _)
exactMatch_lastWins(fs, p, i) ==
    IF i > fs.count_ THEN 0
    ELSE LET later == exactMatch_lastWins(fs, p, i + 1)
         IN  IF later > 0 THEN later
             ELSE IF ~fs.names_[i].null /\ normalize(fs.names_[i].val) = p THEN i
             ELSE 0

\* the first loop of open and exists: the least i >= from whose name is not
\* null and normalises to p, or 0
RECURSIVE exactMatch(_, _, _)
exactMatch(fs, p, i) ==
    IF i > fs.count_ THEN 0
    ELSE IF fs.names_[i].null THEN exactMatch(fs, p, i + 1)
    ELSE IF normalize(fs.names_[i].val) = p THEN i
    ELSE exactMatch(fs, p, i + 1)

\* the position of path among entries, or 0
RECURSIVE entryIndex(_, _, _)
entryIndex(entries, path, k) ==
    IF k > Len(entries) THEN 0
    ELSE IF entries[k].path = path THEN k
    ELSE entryIndex(entries, path, k + 1)

\* addUnique without the search for an entry of the same path
addUnique_noDedup(entries, path, isDir) ==
    Append(entries, [path |-> path, isDir |-> isDir])

addUnique(entries, path, isDir) ==
    LET k == entryIndex(entries, path, 1)
    IN  IF k > 0
        THEN IF isDir /\ ~entries[k].isDir
             THEN [entries EXCEPT ![k].isDir = TRUE]
             ELSE entries
        ELSE Append(entries, [path |-> path, isDir |-> isDir])

\* one iteration of the second loop of open, for names_[i]
scanEntry(fs, p, i, entries) ==
    IF fs.names_[i].null THEN entries
    ELSE
    LET fn == normalize(fs.names_[i].val)
        prefix == prefixOf(p)
    IN  IF p = <<>>
        THEN IF fn = <<>> THEN entries
             ELSE LET slashPos == find(fn)
                      isDir == slashPos # -1
                      childName == IF isDir THEN substr0(fn, slashPos) ELSE fn
                      childPath == <<"/">> \o childName
                  IN  addUnique(entries, childPath, isDir)
        ELSE IF Len(fn) <= Len(prefix) \/ ~startsWith(fn, prefix) THEN entries
             ELSE LET remainder == substr(fn, Len(prefix))
                  IN  IF remainder = <<>> THEN entries
                      ELSE LET slashPos == find(remainder)
                               isDir == slashPos # -1
                               childName == IF isDir THEN substr0(remainder, slashPos)
                                            ELSE remainder
                               childPath == <<"/">> \o p \o <<"/">> \o childName
                           IN  addUnique(entries, childPath, isDir)

RECURSIVE scanChildren(_, _, _, _)
scanChildren(fs, p, i, entries) ==
    IF i > fs.count_ THEN entries
    ELSE scanChildren(fs, p, i + 1, scanEntry(fs, p, i, entries))

\* EmbedFSImpl::open(path, mode, create)
EmbedFSImpl_open(fs, path) ==
    IF path.null THEN NoImpl
    ELSE
    LET p == normalize(path.val)
        display == displayOf(p)
        i == exactMatch(fs, p, 1)
    IN  IF i > 0
        THEN EmbeddedFileImpl(Ref(display), fs.data_[i], fs.sizes_[i])
        ELSE LET entries == scanChildren(fs, p, 1, <<>>)
             IN  IF entries # <<>> \/ p = <<>>
                 THEN EmbeddedDirImpl(Ref(display), Ref(fs), entries)
                 ELSE NoImpl

\* the second loop of exists: some name from i on is strictly longer than the
\* prefix and starts with it
RECURSIVE prefixMatch(_, _, _)
prefixMatch(fs, prefix, i) ==
    IF i > fs.count_ THEN FALSE
    ELSE IF fs.names_[i].null THEN prefixMatch(fs, prefix, i + 1)
    ELSE LET fn == normalize(fs.names_[i].val)
         IN  IF prefix = <<>> \/ (Len(fn) > Len(prefix) /\ startsWith(fn, prefix))
             THEN TRUE
             ELSE prefixMatch(fs, prefix, i + 1)

\* EmbedFSImpl::exists(path)
EmbedFSImpl_exists(fs, path) ==
    IF path.null THEN FALSE
    ELSE
    LET p == normalize(path.val)
    IN  IF p = <<>> THEN TRUE
        ELSE IF exactMatch(fs, p, 1) > 0 THEN TRUE
        ELSE prefixMatch(fs, prefixOf(p), 1)

\* --------------------------------------------------------------- the state
VARIABLES
    impl,        \* EmbedFSFS::_impl: NULL or Ref(an EmbedFSImpl)
    fileNames_,  \* EmbedFSFS::fileNames_
    fileData_,   \* EmbedFSFS::fileData_
    fileSizes_,  \* EmbedFSFS::fileSizes_
    fileCount_,  \* EmbedFSFS::fileCount_
    file,        \* the File the client holds: what its FileImplPtr points to
    efile,       \* the EmbedFSFile the client holds
    buf,         \* the client's buffer after the last read
    sizeBits,    \* the width of size_t in this build
    call,        \* the last call of the client: its arguments and return value
    supplied,    \* history: the arguments of the last successful begin, NULL after end
    hist         \* history: what the client's handles have delivered so far

vars == <<impl, fileNames_, fileData_, fileSizes_, fileCount_, file, efile, buf,
          sizeBits, call, supplied, hist>>

fsVars == <<impl, fileNames_, fileData_, fileSizes_, fileCount_, supplied>>

\* size_t is 32 bits wide on the ESP32 targets and 64 bits wide on a host build
SizeTBits == {32, 64}

Bytes == {0, 255}
Blobs == UNION {[1..k -> Bytes] : k \in 0..MaxSize}

\* EmbedFSFile::EmbedFSFile()
EmbedFSFile0 == [dataPtr_ |-> NULL, dataSize_ |-> 0, pos_ |-> 0]
\* EmbedFSFile::EmbedFSFile(dataPtr, dataSize)
EmbedFSFile(dataPtr, dataSize) ==
    [dataPtr_ |-> dataPtr, dataSize_ |-> dataSize, pos_ |-> 0]

NoCall == [op |-> "none"]

\* nothing delivered yet: no byte copied from the File (copied) or from the
\* EmbedFSFile (ecopied) since it was opened or last repositioned by seek, no
\* child listed by the directory since its cursor was last set (listed), the
\* cursor was last set to 0 (fromStart), rewindDirectory was not called
\* (rewound), the first complete listing is still to come (first), and the
\* EmbedFSImpl that _owner of the client's directory points to has not been
\* destroyed (ownerFreed)
NoHist == [copied |-> <<>>, ecopied |-> <<>>, listed |-> <<>>,
           fromStart |-> TRUE, rewound |-> FALSE, first |-> NULL,
           ownerFreed |-> FALSE]

\* _impl is let go of: the EmbedFSImpl it held is destroyed, and _owner of a
\* directory the client still holds points to freed memory from here on
OwnerDestroyed == [hist EXCEPT !.ownerFreed = @ \/ file.kind = "dir"]

\* the query paths of open and exists
Paths == CStrings(MaxNameLen)
ShortPaths == CStrings(MaxQueryLen)
\* the paths a client passes to openEmbedded: strcmp reads the path, so it is
\* a string
NamePaths == Strings(MaxQueryLen)

\* ------------------------------------------------------- EmbedFSFS: lifecycle
\* EmbedFSFS::EmbedFSFS()
Constructed ==
    /\ impl = NULL
    /\ fileNames_ = NULL
    /\ fileData_ = NULL
    /\ fileSizes_ = NULL
    /\ fileCount_ = 0
    /\ supplied = NULL

\* the arrays of two asset sets a sketch may pass to begin
NamesA == [i \in 1..MaxCount |-> Ref(<<"/">> \o [k \in 1..i |-> "a"])]
NamesB == [i \in 1..MaxCount |->
             IF i = 1 THEN Ref(<<"a", "/", "a">>) ELSE NULL]
DataA == [i \in 1..MaxCount |-> Ref(<<i>>)]
DataB == [i \in 1..MaxCount |-> IF i = 1 THEN NULL ELSE Ref(<<255, i>>)]
SizesA == [i \in 1..MaxCount |-> 1]
SizesB == [i \in 1..MaxCount |-> Min(i, MaxSize)]
BeginNames == {NULL, Ref(NamesA), Ref(NamesB)}
BeginData == {NULL, Ref(DataA), Ref(DataB)}
BeginSizes == {NULL, Ref(SizesA), Ref(SizesB)}

\* begin that keeps an index that is already installed
EmbedFSFS_begin_keepsMounted(file_names, file_data, file_sizes, file_count) ==
    IF file_names.null \/ file_data.null \/ file_sizes.null \/ file_count = 0
    THEN /\ call' = [op |-> "begin", names |-> file_names, data |-> file_data,
                     sizes |-> file_sizes, count |-> file_count, ret |-> FALSE]
         /\ UNCHANGED fsVars
    ELSE /\ impl' = IF impl.null
                    THEN Ref(EmbedFSImpl(file_names.val, file_data.val,
                                         file_sizes.val, file_count))
                    ELSE impl
         /\ fileNames_' = file_names
         /\ fileData_' = file_data
         /\ fileSizes_' = file_sizes
         /\ fileCount_' = file_count
         /\ supplied' = Ref(EmbedFSImpl(file_names.val, file_data.val,
                                         file_sizes.val, file_count))
         /\ call' = [op |-> "begin", names |-> file_names, data |-> file_data,
                     sizes |-> file_sizes, count |-> file_count, ret |-> TRUE]

\* begin that unmounts when its arguments are rejected
EmbedFSFS_begin_failureUnmounts(file_names, file_data, file_sizes, file_count) ==
    IF file_names.null \/ file_data.null \/ file_sizes.null \/ file_count = 0
    THEN /\ call' = [op |-> "begin", names |-> file_names, data |-> file_data,
                     sizes |-> file_sizes, count |-> file_count, ret |-> FALSE]
         /\ impl' = NULL
         /\ fileNames_' = NULL
         /\ fileData_' = NULL
         /\ fileSizes_' = NULL
         /\ fileCount_' = 0
         /\ supplied' = NULL
    ELSE /\ impl' = Ref(EmbedFSImpl(file_names.val, file_data.val,
                                     file_sizes.val, file_count))
         /\ fileNames_' = file_names
         /\ fileData_' = file_data
         /\ fileSizes_' = file_sizes
         /\ fileCount_' = file_count
         /\ supplied' = Ref(EmbedFSImpl(file_names.val, file_data.val,
                                         file_sizes.val, file_count))
         /\ call' = [op |-> "begin", names |-> file_names, data |-> file_data,
                     sizes |-> file_sizes, count |-> file_count, ret |-> TRUE]

\* EmbedFSFS::begin(file_names, file_data, file_sizes, file_count)
EmbedFSFS_begin(file_names, file_data, file_sizes, file_count) ==
    IF file_names.null \/ file_data.null \/ file_sizes.null \/ file_count = 0
    THEN /\ call' = [op |-> "begin", names |-> file_names, data |-> file_data,
                     sizes |-> file_sizes, count |-> file_count, ret |-> FALSE]
         /\ UNCHANGED fsVars
    ELSE /\ impl' = Ref(EmbedFSImpl(file_names.val, file_data.val,
                                     file_sizes.val, file_count))
         /\ fileNames_' = file_names
         /\ fileData_' = file_data
         /\ fileSizes_' = file_sizes
         /\ fileCount_' = file_count
         /\ supplied' = Ref(EmbedFSImpl(file_names.val, file_data.val,
                                         file_sizes.val, file_count))
         /\ call' = [op |-> "begin", names |-> file_names, data |-> file_data,
                     sizes |-> file_sizes, count |-> file_count, ret |-> TRUE]

Begin ==
    /\ \E file_names \in BeginNames, file_data \in BeginData,
          file_sizes \in BeginSizes, file_count \in 0..MaxCount :
            EmbedFSFS_begin(file_names, file_data, file_sizes, file_count)
    /\ hist' = IF call'.ret THEN OwnerDestroyed ELSE hist
    /\ UNCHANGED <<file, efile, buf, sizeBits>>

\* EmbedFSFS::begin(formatOnFail, basePath, maxOpenFiles, partitionLabel)
BeginCompat ==
    /\ call' = [op |-> "beginCompat", ret |-> ~impl.null]
    /\ UNCHANGED <<fsVars, file, efile, buf, sizeBits, hist>>

\* end that resets the resolver and forgets to clear the size array
End_keepsSizes ==
    /\ impl' = NULL
    /\ fileNames_' = NULL
    /\ fileData_' = NULL
    /\ supplied' = NULL
    /\ call' = [op |-> "end"]
    /\ hist' = OwnerDestroyed
    /\ UNCHANGED <<fileSizes_, fileCount_, file, efile, buf, sizeBits>>

\* EmbedFSFS::end()
End ==
    /\ impl' = NULL
    /\ fileNames_' = NULL
    /\ fileData_' = NULL
    /\ fileSizes_' = NULL
    /\ fileCount_' = 0
    /\ supplied' = NULL
    /\ call' = [op |-> "end"]
    /\ hist' = OwnerDestroyed
    /\ UNCHANGED <<file, efile, buf, sizeBits>>

\* EmbedFSFS::exists(path)
EmbedFSFS_exists(path) ==
    IF impl.null THEN FALSE ELSE EmbedFSImpl_exists(impl.val, path)

Exists(P) ==
    /\ \E path \in P :
         call' = [op |-> "exists", path |-> path, ret |-> EmbedFSFS_exists(path)]
    /\ UNCHANGED <<fsVars, file, efile, buf, sizeBits, hist>>

\* EmbedFSFS::open(path, mode)
EmbedFSFS_open(path) ==
    IF impl.null THEN NoImpl ELSE EmbedFSImpl_open(impl.val, path)

Open(P) ==
    /\ \E path \in P :
         /\ file' = EmbedFSFS_open(path)
         /\ call' = [op |-> "open", path |-> path]
    /\ hist' = [hist EXCEPT !.copied = <<>>, !.listed = <<>>,
                            !.fromStart = TRUE, !.rewound = FALSE,
                            !.first = NULL, !.ownerFreed = FALSE]
    /\ UNCHANGED <<fsVars, efile, buf, sizeBits>>

\* EmbedFSFS::openEmbedded(path): strcmp compares the name with the path as
\* it is given
RECURSIVE openEmbedded(_, _)
openEmbedded(path, i) ==
    IF i > fileCount_ THEN EmbedFSFile0
    ELSE LET p == fileNames_.val[i]
         IN  IF p.null THEN openEmbedded(path, i + 1)
             ELSE IF p.val = path THEN EmbedFSFile(fileData_.val[i], fileSizes_.val[i])
             ELSE openEmbedded(path, i + 1)

EmbedFSFS_openEmbedded(path) ==
    IF fileNames_.null THEN EmbedFSFile0 ELSE openEmbedded(path, 1)

\* the client opens an EmbedFSFile by the name of an entry; the path it
\* passes is a string
OpenEmbedded(P) ==
    /\ \E path \in P :
         /\ efile' = EmbedFSFS_openEmbedded(path)
         /\ call' = [op |-> "openEmbedded", path |-> Ref(path)]
    /\ hist' = [hist EXCEPT !.ecopied = <<>>]
    /\ UNCHANGED <<fsVars, file, buf, sizeBits>>

\* the loop of totalBytes: sizes[1] + ... + sizes[n]
RECURSIVE sumSizes(_, _)
sumSizes(sizes, n) ==
    IF n = 0 THEN 0 ELSE sumSizes(sizes, n - 1) + sizes[n]

\* EmbedFSFS::totalBytes()
EmbedFSFS_totalBytes ==
    IF fileSizes_.null THEN 0 ELSE sumSizes(fileSizes_.val, fileCount_)

TotalBytes ==
    /\ call' = [op |-> "totalBytes", ret |-> EmbedFSFS_totalBytes]
    /\ UNCHANGED <<fsVars, file, efile, buf, sizeBits, hist>>

\* ------------------------------------------- the operations of a writable FS
\* the paths a client passes to rename, remove, mkdir and rmdir
PathArgs == {NULL, Ref(<<"/", "a">>)}

\* write that stores nothing and still reports size bytes written and moves
\* the position or the cursor
FileImpl_write_advances(h, size) ==
    [ret |-> size,
     h |-> [h EXCEPT !.pos = h.pos + size, !.index = h.index + size]]

\* EmbeddedFileImpl::write(buf, size) and EmbeddedDirImpl::write(buf, size):
\* the return value and the handle after
FileImpl_write(h, size) == [ret |-> 0, h |-> h]

\* the client writes size bytes to its File
Write ==
    /\ file.kind # "null"
    /\ \E size \in 0..MaxSize :
         LET r == FileImpl_write(file, size)
         IN  /\ file' = r.h
             /\ call' = [op |-> "write", size |-> size, ret |-> r.ret]
    /\ UNCHANGED <<fsVars, efile, buf, sizeBits, hist>>

\* EmbedFSImpl::rename(pathFrom, pathTo)
EmbedFSImpl_rename(fs, pathFrom, pathTo) == FALSE
\* EmbedFSImpl::remove(path)
EmbedFSImpl_remove(fs, path) == FALSE
\* EmbedFSImpl::mkdir(path)
EmbedFSImpl_mkdir(fs, path) == FALSE
\* EmbedFSImpl::rmdir(path)
EmbedFSImpl_rmdir(fs, path) == FALSE

Rename ==
    /\ \E pathFrom \in PathArgs, pathTo \in PathArgs :
         call' = [op |-> "rename", from |-> pathFrom, to |-> pathTo,
                  ret |-> IF impl.null THEN FALSE
                          ELSE EmbedFSImpl_rename(impl.val, pathFrom, pathTo)]
    /\ UNCHANGED <<fsVars, file, efile, buf, sizeBits, hist>>

Remove ==
    /\ \E path \in PathArgs :
         call' = [op |-> "remove", path |-> path,
                  ret |-> IF impl.null THEN FALSE
                          ELSE EmbedFSImpl_remove(impl.val, path)]
    /\ UNCHANGED <<fsVars, file, efile, buf, sizeBits, hist>>

Mkdir ==
    /\ \E path \in PathArgs :
         call' = [op |-> "mkdir", path |-> path,
                  ret |-> IF impl.null THEN FALSE
                          ELSE EmbedFSImpl_mkdir(impl.val, path)]
    /\ UNCHANGED <<fsVars, file, efile, buf, sizeBits, hist>>

Rmdir ==
    /\ \E path \in PathArgs :
         call' = [op |-> "rmdir", path |-> path,
                  ret |-> IF impl.null THEN FALSE
                          ELSE EmbedFSImpl_rmdir(impl.val, path)]
    /\ UNCHANGED <<fsVars, file, efile, buf, sizeBits, hist>>

\* EmbedFSFS::format()
Format ==
    /\ call' = [op |-> "format", ret |-> FALSE]
    /\ UNCHANGED <<fsVars, file, efile, buf, sizeBits, hist>>

\* usedBytes that counts only the entries that have data
EmbedFSFS_usedBytes_dataOnly ==
    IF fileSizes_.null THEN 0
    ELSE sumSizes([i \in 1..fileCount_ |->
                     IF fileData_.val[i].null THEN 0 ELSE fileSizes_.val[i]],
                  fileCount_)

\* EmbedFSFS::usedBytes()
EmbedFSFS_usedBytes == EmbedFSFS_totalBytes

UsedBytes ==
    /\ call' = [op |-> "usedBytes", ret |-> EmbedFSFS_usedBytes]
    /\ UNCHANGED <<fsVars, file, efile, buf, sizeBits, hist>>

\* the handles and the buffer before the client has opened or read anything
NoHandles ==
    /\ file = NoImpl
    /\ efile = EmbedFSFile0
    /\ buf = <<>>
    /\ call = NoCall
    /\ hist = NoHist

\* the lifecycle calls do no size_t arithmetic that can wrap: the ESP32 build
Init ==
    /\ Constructed
    /\ NoHandles
    /\ sizeBits = 32

Next ==
    \/ Begin
    \/ BeginCompat
    \/ End
    \/ Exists(ShortPaths)
    \/ Open(ShortPaths)
    \/ OpenEmbedded(NamePaths)
    \/ TotalBytes
    \/ UsedBytes
    \/ Write
    \/ Rename
    \/ Remove
    \/ Mkdir
    \/ Rmdir
    \/ Format

Spec == Init /\ [][Next]_vars

\* ------------------------------------------------- the resolver on any index
\* the payload of entry i: no data, or the one-byte blob <<i>>
Payloads(i) == {[data |-> NULL, size |-> 0],
                [data |-> Ref(<<i>>), size |-> 1]}

\* every Entry Index of 1..MaxCount entries with names of up to MaxNameLen
\* characters (or null)
Indexes ==
    UNION {
      { EmbedFSImpl(names, [i \in 1..c |-> pl[i].data], [i \in 1..c |-> pl[i].size], c) :
          names \in [1..c -> CStrings(MaxNameLen)],
          pl \in {f \in [1..c -> UNION {Payloads(i) : i \in 1..c}] :
                    \A i \in 1..c : f[i] \in Payloads(i)} }
      : c \in 1..MaxCount }

\* the state after a successful begin on the index fs
MountedOn(fs) ==
    /\ impl = Ref(fs)
    /\ fileNames_ = Ref(fs.names_)
    /\ fileData_ = Ref(fs.data_)
    /\ fileSizes_ = Ref(fs.sizes_)
    /\ fileCount_ = fs.count_
    /\ supplied = Ref(fs)

InitResolve ==
    /\ \E fs \in Indexes : MountedOn(fs)
    /\ NoHandles
    /\ sizeBits = 32

\* the client resolves one path: open and exists change nothing they read
NextResolve ==
    \/ call = NoCall /\ Exists(Paths)
    \/ call = NoCall /\ Open(Paths)

SpecResolve == InitResolve /\ [][NextResolve]_vars

\* ------------------------------------------------------ the file handles
\* A uint32_t is the pair of its 16-bit halves: its value is hi * 2^16 + lo.
Half == 2^16
U32(hi, lo) == [hi |-> hi, lo |-> lo]
\* the offsets a client seeks by: the small ones, and the largest ones
SeekOffsets ==
    {U32(0, k) : k \in 0..MaxSize + 1} \cup
    {U32(Half - 1, Half - k) : k \in 1..MaxSize + 1}
SeekModes == {"SeekSet", "SeekCur", "SeekEnd"}
\* the value a buffer cell holds before anything is read into it
Unwritten == -1

\* size_t newpos = base + pos in a size_t of the given width, base < 2^16:
\* 32 bits drop the carry out of the high half, 64 bits keep it
addSizeT(base, pos, bits) ==
    LET sumLo == base + pos.lo
        sumHi == pos.hi + (sumLo \div Half)
    IN  U32(IF bits = 32 THEN sumHi % Half ELSE sumHi, sumLo % Half)

\* seek without the comparison of the new position with the size
EmbeddedFileImpl_seek_noBound(h, pos, mode, bits) ==
    LET newpos == CASE mode = "SeekSet" -> addSizeT(0, pos, bits)
                    [] mode = "SeekCur" -> addSizeT(h.pos, pos, bits)
                    [] mode = "SeekEnd" -> addSizeT(h.size, pos, bits)
    IN  IF newpos.hi > 0
        THEN [ret |-> FALSE, h |-> h]
        ELSE [ret |-> TRUE, h |-> [h EXCEPT !.pos = newpos.lo]]

\* EmbeddedFileImpl::seek(pos, mode): the return value and the handle after
EmbeddedFileImpl_seek(h, pos, mode, bits) ==
    LET newpos == CASE mode = "SeekSet" -> addSizeT(0, pos, bits)
                    [] mode = "SeekCur" -> addSizeT(h.pos, pos, bits)
                    [] mode = "SeekEnd" -> addSizeT(h.size, pos, bits)
    IN  IF newpos.hi > 0 \/ newpos.lo > h.size
        THEN [ret |-> FALSE, h |-> h]
        ELSE [ret |-> TRUE, h |-> [h EXCEPT !.pos = newpos.lo]]

\* read that copies from the start of the data instead of from _pos
EmbeddedFileImpl_read_fromStart(h, size) ==
    IF h.data.null \/ h.pos >= h.size
    THEN [ret |-> 0, buf |-> [i \in 1..size |-> Unwritten], h |-> h]
    ELSE LET remaining == h.size - h.pos
             toRead == IF size < remaining THEN size ELSE remaining
         IN  [ret |-> toRead,
              buf |-> [i \in 1..size |->
                         IF i <= toRead THEN h.data.val[i] ELSE Unwritten],
              h |-> [h EXCEPT !.pos = h.pos + toRead]]

\* EmbeddedFileImpl::read(buf, size) into a buffer of size cells: the return
\* value, the buffer and the handle after
EmbeddedFileImpl_read(h, size) ==
    IF h.data.null \/ h.pos >= h.size
    THEN [ret |-> 0, buf |-> [i \in 1..size |-> Unwritten], h |-> h]
    ELSE LET remaining == h.size - h.pos
             toRead == IF size < remaining THEN size ELSE remaining
         IN  [ret |-> toRead,
              buf |-> [i \in 1..size |->
                         IF i <= toRead THEN h.data.val[h.pos + i] ELSE Unwritten],
              h |-> [h EXCEPT !.pos = h.pos + toRead]]

\* EmbedFSFile::seek(pos)
EmbedFSFile_seek(f, pos) ==
    IF f.dataPtr_.null THEN [ret |-> FALSE, f |-> f]
    ELSE IF pos.hi > 0 \/ pos.lo > f.dataSize_ THEN [ret |-> FALSE, f |-> f]
    ELSE [ret |-> TRUE, f |-> [f EXCEPT !.pos_ = pos.lo]]

\* EmbedFSFile::read(buffer, len)
EmbedFSFile_read(f, len) ==
    IF f.dataPtr_.null \/ f.pos_ >= f.dataSize_
    THEN [ret |-> 0, buf |-> [i \in 1..len |-> Unwritten], f |-> f]
    ELSE LET remaining == f.dataSize_ - f.pos_
             toRead == IF len < remaining THEN len ELSE remaining
         IN  [ret |-> toRead,
              buf |-> [i \in 1..len |->
                         IF i <= toRead THEN f.dataPtr_.val[f.pos_ + i] ELSE Unwritten],
              f |-> [f EXCEPT !.pos_ = f.pos_ + toRead]]

\* the client reads up to len bytes from its File
Read ==
    /\ file.kind = "file"
    /\ \E len \in 0..MaxSize + 1 :
         LET r == EmbeddedFileImpl_read(file, len)
         IN  /\ file' = r.h
             /\ buf' = r.buf
             /\ call' = [op |-> "read", len |-> len, from |-> file.pos, ret |-> r.ret]
             /\ hist' = [hist EXCEPT !.copied = @ \o SubSeq(r.buf, 1, r.ret)]
    /\ UNCHANGED <<fsVars, efile, sizeBits>>

\* the client seeks in its File
Seek ==
    /\ file.kind = "file"
    /\ \E pos \in SeekOffsets, mode \in SeekModes :
         LET r == EmbeddedFileImpl_seek(file, pos, mode, sizeBits)
         IN  /\ file' = r.h
             /\ call' = [op |-> "seek", pos |-> pos, mode |-> mode,
                         from |-> file.pos, ret |-> r.ret]
             /\ hist' = [hist EXCEPT !.copied = IF r.ret THEN <<>> ELSE @]
    /\ UNCHANGED <<fsVars, efile, buf, sizeBits>>

\* the client reads up to len bytes from its EmbedFSFile
ERead ==
    /\ \E len \in 0..MaxSize + 1 :
         LET r == EmbedFSFile_read(efile, len)
         IN  /\ efile' = r.f
             /\ buf' = r.buf
             /\ call' = [op |-> "eread", len |-> len, from |-> efile.pos_, ret |-> r.ret]
             /\ hist' = [hist EXCEPT !.ecopied = @ \o SubSeq(r.buf, 1, r.ret)]
    /\ UNCHANGED <<fsVars, file, sizeBits>>

\* the client seeks in its EmbedFSFile
ESeek ==
    /\ \E pos \in SeekOffsets :
         LET r == EmbedFSFile_seek(efile, pos)
         IN  /\ efile' = r.f
             /\ call' = [op |-> "eseek", pos |-> pos, mode |-> "SeekSet",
                         from |-> efile.pos_, ret |-> r.ret]
             /\ hist' = [hist EXCEPT !.ecopied = IF r.ret THEN <<>> ELSE @]
    /\ UNCHANGED <<fsVars, file, buf, sizeBits>>

\* EmbedFSFile::available()
EmbedFSFile_available(f) ==
    IF f.dataPtr_.null THEN 0 ELSE f.dataSize_ - f.pos_

\* the value read() returns at the end of the data
EndOfData == -1

\* read() that returns the byte and forgets to advance
EmbedFSFile_readByte_noAdvance(f) ==
    IF f.dataPtr_.null \/ f.pos_ >= f.dataSize_
    THEN [ret |-> EndOfData, f |-> f]
    ELSE [ret |-> f.dataPtr_.val[f.pos_ + 1], f |-> f]

\* EmbedFSFile::read(): the byte at pos_, or EndOfData
EmbedFSFile_readByte(f) ==
    IF f.dataPtr_.null \/ f.pos_ >= f.dataSize_
    THEN [ret |-> EndOfData, f |-> f]
    ELSE [ret |-> f.dataPtr_.val[f.pos_ + 1], f |-> [f EXCEPT !.pos_ = f.pos_ + 1]]

\* close that forgets to reset the position
EmbedFSFile_close_keepsPos(f) ==
    [dataPtr_ |-> NULL, dataSize_ |-> 0, pos_ |-> f.pos_]

\* EmbedFSFile::close()
EmbedFSFile_close(f) ==
    [dataPtr_ |-> NULL, dataSize_ |-> 0, pos_ |-> 0]

\* EmbeddedFileImpl::close() and EmbeddedDirImpl::close()
FileImpl_close(h) == h

\* the client reads one byte from its EmbedFSFile
EReadByte ==
    /\ LET r == EmbedFSFile_readByte(efile)
       IN  /\ efile' = r.f
           /\ call' = [op |-> "ereadByte", from |-> efile.pos_, ret |-> r.ret]
           /\ hist' = [hist EXCEPT !.ecopied = IF r.ret = EndOfData THEN @
                                               ELSE Append(@, r.ret)]
    /\ UNCHANGED <<fsVars, file, buf, sizeBits>>

\* the client asks its EmbedFSFile how many bytes are left
EAvailable ==
    /\ call' = [op |-> "eavailable", ret |-> EmbedFSFile_available(efile)]
    /\ UNCHANGED <<fsVars, file, efile, buf, sizeBits, hist>>

\* the client closes its EmbedFSFile
EClose ==
    /\ efile' = EmbedFSFile_close(efile)
    /\ call' = [op |-> "eclose"]
    /\ UNCHANGED <<fsVars, file, buf, sizeBits, hist>>

\* the client closes its File: File::close() of the FS library calls close()
\* of the implementation and lets go of it, which leaves the File empty
Close ==
    /\ file' = IF file.kind = "null" THEN file
               ELSE LET h == FileImpl_close(file) IN NoImpl
    /\ call' = [op |-> "close"]
    /\ UNCHANGED <<fsVars, efile, buf, sizeBits, hist>>

\* the state after begin on a one-entry index, before the client opens
\* anything: the entry is named "a" and has no data, or a blob and its length
InitFile ==
    /\ \E data \in {NULL} \cup {Ref(b) : b \in Blobs}, n \in 0..MaxSize :
         /\ ~data.null => n = Len(data.val)
         /\ MountedOn(EmbedFSImpl(<<Ref(<<"a">>)>>, <<data>>, <<n>>, 1))
    /\ NoHandles
    /\ sizeBits \in SizeTBits

\* the client opens one File (the FS API) or one EmbedFSFile (the compat
\* layer) and works on it
NextFile ==
    \/ call = NoCall /\ Open(ShortPaths)
    \/ call = NoCall /\ OpenEmbedded(NamePaths)
    \/ Read
    \/ Seek
    \/ Write
    \/ Close
    \/ ERead
    \/ EReadByte
    \/ ESeek
    \/ EAvailable
    \/ EClose

SpecFile == InitFile /\ [][NextFile]_vars

\* a client that reads its handle to the end, as the listing loop of the
\* example sketch does: every read asks for one byte or more, nothing seeks
ReadSome == Read /\ call'.len > 0
EReadSome == ERead /\ call'.len > 0

NextLoop ==
    \/ call = NoCall /\ Open(ShortPaths)
    \/ call = NoCall /\ OpenEmbedded(NamePaths)
    \/ ReadSome
    \/ EReadSome
    \/ EReadByte
    \/ EAvailable

\* the loop goes on calling read for as long as a call can change anything
SpecLoop ==
    /\ InitFile
    /\ [][NextLoop]_vars
    /\ WF_vars(ReadSome)
    /\ WF_vars(EReadSome \/ EReadByte)

\* -------------------------------------------------- the directory handles
\* EmbeddedDirImpl::openNextFile(mode): the handle returned and the directory
\* after, when _owner points to a living EmbedFSImpl
EmbeddedDirImpl_openNextFile(h) ==
    IF h.index >= Len(h.entries) \/ h.owner.null
    THEN [ret |-> NoImpl, h |-> h]
    ELSE LET current == h.index
         IN  [ret |-> EmbedFSImpl_open(h.owner.val, Ref(h.entries[current + 1].path)),
              h |-> [h EXCEPT !.index = current + 1]]

\* what a read through a dangling _owner can find in the freed memory: the
\* EmbedFSImpl that was there, or the one that is mounted now
FreedOwners(h) == {h.owner} \cup (IF impl.null THEN {} ELSE {impl})

\* openNextFile reads through _owner after _index++ : the call on the
\* directory h dereferences a destroyed EmbedFSImpl when the cursor is before
\* the end and the EmbedFSImpl of h is gone
Dangling(h) == hist.ownerFreed /\ ~h.owner.null /\ h.index < Len(h.entries)

\* the outcomes of openNextFile on the client's directory h: the one of the
\* code when _owner is alive or is not read; otherwise the behaviour is
\* undefined, and the call stops the program after _index++ (crashed) or
\* resolves the child on what the freed memory holds
openNextFileOutcomes(h) ==
    IF ~Dangling(h)
    THEN {[r |-> EmbeddedDirImpl_openNextFile(h), crashed |-> FALSE]}
    ELSE {[r |-> [ret |-> NoImpl, h |-> [h EXCEPT !.index = @ + 1]],
           crashed |-> TRUE]}
         \cup {[r |-> LET x == EmbeddedDirImpl_openNextFile([h EXCEPT !.owner = m])
                      IN  [ret |-> x.ret, h |-> [x.h EXCEPT !.owner = h.owner]],
                 crashed |-> FALSE] : m \in FreedOwners(h)}

\* seekDir that stores the position without clamping it to the entry count
EmbeddedDirImpl_seekDir_noClamp(h, position) ==
    IF position < 0 THEN [ret |-> FALSE, h |-> h]
    ELSE [ret |-> TRUE, h |-> [h EXCEPT !.index = position]]

\* EmbeddedDirImpl::seekDir(position)
EmbeddedDirImpl_seekDir(h, position) ==
    IF position < 0 THEN [ret |-> FALSE, h |-> h]
    ELSE LET pos == IF position > Len(h.entries) THEN Len(h.entries) ELSE position
         IN  [ret |-> TRUE, h |-> [h EXCEPT !.index = pos]]

\* EmbeddedDirImpl::getNextFileName(): String() is the empty string
EmbeddedDirImpl_getNextFileName(h) ==
    IF h.index >= Len(h.entries)
    THEN [ret |-> <<>>, h |-> h]
    ELSE LET current == h.index
         IN  [ret |-> h.entries[current + 1].path,
              h |-> [h EXCEPT !.index = current + 1]]

\* EmbeddedDirImpl::getNextFileName(isDir): isDir is the pointer the caller
\* passes, NULL or Ref(the bool it points to); the result has the bool after
EmbeddedDirImpl_getNextFileNameIsDir(h, isDir) ==
    IF h.index >= Len(h.entries)
    THEN [ret |-> <<>>, isDir |-> isDir, h |-> h]
    ELSE LET current == h.index
         IN  [ret |-> h.entries[current + 1].path,
              isDir |-> IF isDir.null THEN isDir
                        ELSE Ref(h.entries[current + 1].isDir),
              h |-> [h EXCEPT !.index = current + 1]]

\* rewindDirectory that leaves the cursor on the second child
EmbeddedDirImpl_rewindDirectory_toOne(h) == [h EXCEPT !.index = Min(1, Len(h.entries))]

\* EmbeddedDirImpl::rewindDirectory()
EmbeddedDirImpl_rewindDirectory(h) == [h EXCEPT !.index = 0]

\* the positions a client passes to seekDir
SeekDirPositions == -1..MaxCount + 1
\* the pointers a client passes to getNextFileName(isDir)
IsDirArgs == {NULL, Ref(FALSE), Ref(TRUE)}

\* a step of the cursor that is not part of a listing by name and flag
Unlisted == [hist EXCEPT !.listed = <<>>, !.fromStart = FALSE]

\* the client opens the next child of its directory
OpenNextFile ==
    /\ file.kind = "dir"
    /\ \E o \in openNextFileOutcomes(file) :
         /\ file' = o.r.h
         /\ call' = [op |-> "openNextFile", from |-> file.index, ret |-> o.r.ret,
                     crashed |-> o.crashed]
    /\ hist' = Unlisted
    /\ UNCHANGED <<fsVars, efile, buf, sizeBits>>

\* the client moves the cursor of its directory
SeekDir ==
    /\ file.kind = "dir"
    /\ \E position \in SeekDirPositions :
         LET r == EmbeddedDirImpl_seekDir(file, position)
         IN  /\ file' = r.h
             /\ call' = [op |-> "seekDir", position |-> position,
                         from |-> file.index, ret |-> r.ret]
             /\ hist' = IF ~r.ret THEN hist
                        ELSE IF r.h.index = 0
                        THEN [hist EXCEPT !.listed = <<>>, !.fromStart = TRUE]
                        ELSE Unlisted
    /\ UNCHANGED <<fsVars, efile, buf, sizeBits>>

\* the client asks its directory for the name of the next child
GetNextFileName ==
    /\ file.kind = "dir"
    /\ LET r == EmbeddedDirImpl_getNextFileName(file)
       IN  /\ file' = r.h
           /\ call' = [op |-> "getNextFileName", from |-> file.index, ret |-> r.ret]
    /\ hist' = Unlisted
    /\ UNCHANGED <<fsVars, efile, buf, sizeBits>>

\* the client asks its directory for the name and the kind of the next child;
\* a listing is complete when it began at cursor 0 and the cursor reaches the
\* end, and the first complete listing after open, before any rewind, is kept
GetNextFileNameIsDir ==
    /\ file.kind = "dir"
    /\ \E isDir \in IsDirArgs :
         LET r == EmbeddedDirImpl_getNextFileNameIsDir(file, isDir)
             listed == IF file.index < Len(file.entries)
                       THEN Append(hist.listed, [path |-> r.ret, isDir |-> r.isDir.val])
                       ELSE hist.listed
         IN  /\ file' = r.h
             /\ call' = [op |-> "getNextFileNameIsDir", from |-> file.index,
                         ret |-> r.ret, isDir |-> r.isDir]
             /\ hist' = IF isDir.null \/ ~hist.fromStart THEN Unlisted
                        ELSE [hist EXCEPT
                                !.listed = listed,
                                !.first = IF @.null /\ ~hist.rewound
                                             /\ r.h.index = Len(r.h.entries)
                                          THEN Ref(listed) ELSE @]
    /\ UNCHANGED <<fsVars, efile, buf, sizeBits>>

\* the client rewinds its directory
RewindDirectory ==
    /\ file.kind = "dir"
    /\ file' = EmbeddedDirImpl_rewindDirectory(file)
    /\ call' = [op |-> "rewindDirectory", from |-> file.index]
    /\ hist' = [hist EXCEPT !.listed = <<>>, !.fromStart = TRUE, !.rewound = TRUE]
    /\ UNCHANGED <<fsVars, efile, buf, sizeBits>>

\* the loop of the example sketch on the directory h, whose _owner is alive:
\* while ((entry = dir.openNextFile())) prints path, name and size of the
\* entry and closes it. The result is what was printed (entries) and the
\* directory after the loop (h).
RECURSIVE listEntries(_, _)
listEntries(h, entries) ==
    LET r == EmbeddedDirImpl_openNextFile(h)
        entry == r.ret
    IN  IF ~truthy(entry) THEN [entries |-> entries, h |-> r.h]
        ELSE LET closed == FileImpl_close(entry)
             IN  listEntries(r.h, Append(entries, [path |-> closed.path,
                                                   name |-> closed.name,
                                                   size |-> closed.size]))

\* the outcomes of the listing of the example sketch on the client's
\* directory h: rewindDirectory, then the loop. With a dangling _owner and a
\* child to open, the first openNextFile stops the program (crashed) or the
\* loop runs on what the freed memory holds.
listDirectoryOutcomes(h) ==
    LET dir == EmbeddedDirImpl_rewindDirectory(h)
    IN  IF ~Dangling(dir)
        THEN {[r |-> listEntries(dir, <<>>), crashed |-> FALSE]}
        ELSE {[r |-> [entries |-> <<>>, h |-> [dir EXCEPT !.index = 1]],
               crashed |-> TRUE]}
             \cup {[r |-> LET x == listEntries([dir EXCEPT !.owner = m], <<>>)
                          IN  [entries |-> x.entries,
                               h |-> [x.h EXCEPT !.owner = h.owner]],
                     crashed |-> FALSE] : m \in FreedOwners(dir)}

\* the client lists its directory as the example sketch does, and closes it
\* after the loop: if (dir && dir.isDirectory()) { ...; dir.close(); }
ListDirectory ==
    /\ truthy(file) /\ isDirectory(file)
    /\ \E o \in listDirectoryOutcomes(file) :
         /\ file' = IF o.crashed THEN o.r.h
                    ELSE LET h == FileImpl_close(o.r.h) IN NoImpl
         /\ call' = [op |-> "listDirectory", children |-> Len(file.entries),
                     entries |-> o.r.entries, crashed |-> o.crashed]
    /\ hist' = [hist EXCEPT !.listed = <<>>, !.fromStart = FALSE, !.rewound = TRUE]
    /\ UNCHANGED <<fsVars, efile, buf, sizeBits>>

\* the program was stopped by a call that read through a dangling _owner
Crashed == call.op \in {"openNextFile", "listDirectory"} /\ call.crashed

\* every Entry Index of 1..MaxCount entries with names of up to MaxDirNameLen
\* characters (or null)
DirIndexes ==
    UNION {
      { EmbedFSImpl(names, [i \in 1..c |-> pl[i].data], [i \in 1..c |-> pl[i].size], c) :
          names \in [1..c -> CStrings(MaxDirNameLen)],
          pl \in {f \in [1..c -> UNION {Payloads(i) : i \in 1..c}] :
                    \A i \in 1..c : f[i] \in Payloads(i)} }
      : c \in 1..MaxCount }

InitDir ==
    /\ \E fs \in DirIndexes : MountedOn(fs)
    /\ NoHandles
    /\ sizeBits = 32

\* the client opens one path and, when it is a directory, walks its children;
\* it may unmount the object while it holds the directory, and a program that
\* was stopped does nothing more
NextDir ==
    \/ call = NoCall /\ Open(ShortPaths)
    \/ ~Crashed /\ End
    \/ ~Crashed /\ OpenNextFile
    \/ ~Crashed /\ SeekDir
    \/ ~Crashed /\ GetNextFileName
    \/ ~Crashed /\ GetNextFileNameIsDir
    \/ ~Crashed /\ RewindDirectory
    \/ ~Crashed /\ ListDirectory

SpecDir == InitDir /\ [][NextDir]_vars

\* ------------------------------------------------------------------ claims
\* the index the object is mounted on, and the last call's normalized query
Mounted == ~impl.null
QueryGiven == call.op \in {"open", "exists"} /\ ~call.path.null
Query == normalize(call.path.val)
\* the entries whose name is not null and normalizes to q
Matches(fs, q) ==
    {i \in 1..fs.count_ : ~fs.names_[i].null /\ normalize(fs.names_[i].val) = q}
\* the entries whose normalized name is strictly longer than q + "/" and starts
\* with it (for the root: is not empty)
Below(fs, q) ==
    {i \in 1..fs.count_ :
        /\ ~fs.names_[i].null
        /\ LET fn == normalize(fs.names_[i].val)
           IN  IF q = <<>> THEN fn # <<>>
               ELSE /\ Len(fn) > Len(q) + 1
                    /\ \A k \in 1..Len(q) : fn[k] = q[k]
                    /\ fn[Len(q) + 1] = "/"}
Least(S) == CHOOSE i \in S : \A j \in S : i <= j

\* C1: when some entry's normalized name equals the normalized query, open
\* returns a File Handle (never a directory) bound to the data and size of the
\* first such entry in index order.
C1_ExactMatchPrecedence ==
    (Mounted /\ call.op = "open" /\ ~call.path.null
       /\ Matches(impl.val, Query) # {}) =>
        LET i == Least(Matches(impl.val, Query))
        IN  /\ file.kind = "file"
            /\ ~isDirectory(file)
            /\ file.data = impl.val.data_[i]
            /\ file.size = impl.val.sizes_[i]
            /\ file.pos = 0

\* an exact match at entry 2 wins although entry 1 lies below the query
C1_Witness ==
    /\ Mounted /\ call.op = "open" /\ ~call.path.null
    /\ Matches(impl.val, Query) = {2}
    /\ Below(impl.val, Query) = {1}
    /\ Query # <<>>
    /\ file.kind = "file"
    /\ ~file.data.null
    /\ file.data = impl.val.data_[2]
    /\ file.data # impl.val.data_[1]

\* C2: with no exact match, open returns a Directory Handle exactly when the
\* query is the root or some entry lies below it, and not-found otherwise.
C2_DirectoryClassification ==
    (Mounted /\ call.op = "open" /\ ~call.path.null
       /\ Matches(impl.val, Query) = {}) =>
        /\ file.kind = "dir" <=> (Query = <<>> \/ Below(impl.val, Query) # {})
        /\ file.kind # "dir" => file = NoImpl

\* a directory inferred for a path that is not the root, and no entry of its own
C2_Witness ==
    /\ Mounted /\ call.op = "open" /\ ~call.path.null
    /\ Matches(impl.val, Query) = {}
    /\ Query # <<>>
    /\ Below(impl.val, Query) # {}
    /\ file.kind = "dir"

\* the text of entry i after the prefix of q, its first segment, and the
\* child path that segment gives
Remainder(fs, q, i) ==
    LET fn == normalize(fs.names_[i].val)
    IN  IF q = <<>> THEN fn ELSE SubSeq(fn, Len(q) + 2, Len(fn))
Segment(r) ==
    LET stops == {k \in 1..Len(r) : r[k] = "/"}
    IN  IF stops = {} THEN r ELSE SubSeq(r, 1, Least(stops) - 1)
ChildPath(fs, q, i) ==
    (IF q = <<>> THEN <<"/">> ELSE <<"/">> \o q \o <<"/">>)
        \o Segment(Remainder(fs, q, i))
HasMore(fs, q, i) ==
    Len(Remainder(fs, q, i)) > Len(Segment(Remainder(fs, q, i)))
FirstSeen(fs, q, path) ==
    Least({i \in Below(fs, q) : ChildPath(fs, q, i) = path})

\* C3: the children of a Directory Handle are the distinct next segments of the
\* entries below the query, each once, in first-seen index order, and a child
\* is a directory exactly when a contributing entry continues after it.
C3_ChildList ==
    (Mounted /\ call.op = "open" /\ file.kind = "dir") =>
        LET fs == impl.val
            q == Query
            ch == file.entries
        IN  /\ {ch[k].path : k \in 1..Len(ch)}
                  = {ChildPath(fs, q, i) : i \in Below(fs, q)}
            /\ \A j, k \in 1..Len(ch) : j # k => ch[j].path # ch[k].path
            /\ \A j, k \in 1..Len(ch) :
                  j < k => FirstSeen(fs, q, ch[j].path) < FirstSeen(fs, q, ch[k].path)
            /\ \A k \in 1..Len(ch) :
                  ch[k].isDir <=>
                    \E i \in Below(fs, q) :
                      ChildPath(fs, q, i) = ch[k].path /\ HasMore(fs, q, i)
            /\ file.index = 0

\* two entries of one directory below the root: two file children, in index order
C3_Witness ==
    /\ Mounted /\ call.op = "open" /\ file.kind = "dir"
    /\ Query # <<>>
    /\ Len(file.entries) = 2
    /\ ~file.entries[1].isDir /\ ~file.entries[2].isDir
    /\ file.entries[1].path = ChildPath(impl.val, Query, 1)
    /\ file.entries[2].path = ChildPath(impl.val, Query, 2)

\* C4: while mounted, exists("/") is true and open("/") is a valid Directory
\* Handle, whatever the names of the index.
C4_RootAlwaysExists ==
    (Mounted /\ QueryGiven /\ Query = <<>>) =>
        /\ call.op = "exists" => call.ret
        /\ call.op = "open" =>
              (file.kind = "dir" /\ truthy(file) /\ isDirectory(file))

\* C5: exists(p) is true exactly when open(p) returns a handle that converts to
\* true.
C5_ExistsAgreesWithOpen ==
    (Mounted /\ call.op = "open") =>
        (EmbedFSFS_exists(call.path) <=> truthy(file))

\* ------------------------------------------------------- lifecycle claims
ArgsValid(c) == ~c.names.null /\ ~c.data.null /\ ~c.sizes.null /\ c.count > 0
\* sizes[1] + ... + sizes[n], over the set of positions
RECURSIVE SumOver(_, _)
SumOver(sizes, S) ==
    IF S = {} THEN 0
    ELSE LET i == CHOOSE j \in S : TRUE
         IN  sizes[i] + SumOver(sizes, S \ {i})
\* every field of the object as EmbedFSFS() and end() leave it
Cleared ==
    /\ impl = NULL /\ fileNames_ = NULL /\ fileData_ = NULL
    /\ fileSizes_ = NULL /\ fileCount_ = 0

\* C6: begin returns true and leaves the object mounted on exactly the arrays
\* it was given if and only if the three arrays are not null and count > 0;
\* after a successful begin, open, exists and totalBytes answer from the arrays
\* of the latest successful begin.
C6_BeginInstallsIndex ==
    /\ call.op = "begin" =>
          /\ call.ret <=> ArgsValid(call)
          /\ call.ret =>
                /\ impl = Ref(EmbedFSImpl(call.names.val, call.data.val,
                                            call.sizes.val, call.count))
                /\ fileNames_ = call.names /\ fileData_ = call.data
                /\ fileSizes_ = call.sizes /\ fileCount_ = call.count
    /\ ~supplied.null =>
          /\ call.op = "open" => file = EmbedFSImpl_open(supplied.val, call.path)
          /\ call.op = "exists" =>
                call.ret = EmbedFSImpl_exists(supplied.val, call.path)
          /\ call.op = "totalBytes" =>
                call.ret = SumOver(supplied.val.sizes_, 1..supplied.val.count_)

\* begin has just succeeded while the client still holds a file of the index
\* mounted before, a file the new index does not have
C6_Witness ==
    /\ call.op = "begin" /\ call.ret
    /\ file.kind = "file"
    /\ ~EmbedFSImpl_exists(impl.val, file.path)

\* C7 as stated: after a begin with a null array or count 0 the object is
\* unmounted, whatever preceded the call: exists is false and open is invalid
\* for every path.
C7_FailedBeginUnmounted ==
    (call.op = "begin" /\ ~ArgsValid(call)) =>
        /\ ~call.ret
        /\ ~Mounted
        /\ \A path \in ShortPaths :
              ~EmbedFSFS_exists(path) /\ ~truthy(EmbedFSFS_open(path))

\* C7 amended: a begin with a null array or count 0 returns false and leaves
\* every field of the object as it was; an object that was unmounted stays
\* unmounted, with exists false and open invalid for every path.
C7_FailedBeginChangesNothing ==
    [][(call'.op = "begin" /\ ~ArgsValid(call')) =>
          /\ ~call'.ret
          /\ UNCHANGED <<impl, fileNames_, fileData_, fileSizes_, fileCount_>>
          /\ ~Mounted =>
                /\ ~Mounted'
                /\ \A path \in ShortPaths :
                      /\ ~EmbedFSFS_exists(path)'
                      /\ ~truthy(EmbedFSFS_open(path))']_vars

\* a rejected begin on a mounted object: the index is still installed
C7_Witness ==
    /\ call.op = "begin" /\ ~ArgsValid(call) /\ ~call.ret
    /\ Mounted
    /\ EmbedFSFS_exists(Ref(<<"/">>))

\* C8: while unmounted, exists is false, open is invalid and totalBytes is 0
\* for every path; end leaves every field cleared, whatever state it is called
\* in, so that a second end changes nothing.
C8_UnmountedAndEnd ==
    /\ ~Mounted =>
          /\ call.op = "exists" => ~call.ret
          /\ call.op = "open" => (file = NoImpl /\ ~truthy(file))
          /\ call.op = "totalBytes" => call.ret = 0
          /\ \A path \in ShortPaths :
                ~EmbedFSFS_exists(path) /\ ~truthy(EmbedFSFS_open(path))
          /\ EmbedFSFS_totalBytes = 0
    /\ call.op = "end" => Cleared
    /\ call.op = "none" => Cleared

\* after begin, open and end: the path of the file the client still holds no
\* longer exists
C8_Witness ==
    /\ ~Mounted
    /\ call.op = "exists" /\ ~call.ret
    /\ file.kind = "file" /\ truthy(file)
    /\ call.path = file.path

\* ---------------------------------------------------------- handle claims
\* the handle and the position the last call acted on
OnFile == call.op \in {"read", "seek"}
OnEFile == call.op \in {"eread", "eseek"}
Data == IF OnFile THEN file.data ELSE efile.dataPtr_
Size == IF OnFile THEN file.size ELSE efile.dataSize_
Pos == IF OnFile THEN file.pos ELSE efile.pos_

\* C9: read(buffer, maxLen) at position p over data of size N copies
\* k = min(maxLen, N - p) bytes data[p .. p+k-1] into buffer[0 .. k-1], returns
\* k and moves the position to p + k; at p >= N it returns 0 and the position
\* stays.
C9_Read ==
    (call.op \in {"read", "eread"} /\ ~Data.null) =>
        LET p == call.from
            N == Size
            k == Min(call.len, N - p)
        IN  IF p >= N
            THEN call.ret = 0 /\ Pos = p
            ELSE /\ call.ret = k
                 /\ Pos = p + k
                 /\ Len(buf) = call.len
                 /\ \A j \in 0..k - 1 : buf[j + 1] = Data.val[p + j + 1]
                 /\ \A j \in k..call.len - 1 : buf[j + 1] = Unwritten

\* a read from the middle of the data that stops at its end
C9_Witness ==
    /\ call.op = "read" /\ ~Data.null
    /\ call.from > 0
    /\ call.len > Size - call.from
    /\ call.ret = Size - call.from
    /\ call.ret > 0
    /\ buf[1] = Data.val[call.from + 1]

\* the position seek starts from, and whether position + offset exceeds size
SeekBase ==
    CASE call.mode = "SeekSet" -> 0
      [] call.mode = "SeekCur" -> call.from
      [] call.mode = "SeekEnd" -> Size
CandidatePastEnd == call.pos.hi > 0 \/ SeekBase + call.pos.lo > Size

\* C10: seek fails and leaves the position when base + offset is greater
\* than size, and otherwise succeeds and sets the position to base + offset,
\* for each mode and every 32-bit offset.
C10_SeekBounds ==
    (call.op \in {"seek", "eseek"} /\ ~Data.null) =>
        IF CandidatePastEnd
        THEN ~call.ret /\ Pos = call.from
        ELSE call.ret /\ Pos = SeekBase + call.pos.lo

\* ------------------------------------------------ the unsupported operations
Unsupported == {"write", "rename", "remove", "mkdir", "rmdir", "format"}

\* C11: in every state write on a handle returns 0 and rename, remove, mkdir,
\* rmdir and format return false, and the call leaves the mount state, the
\* Entry Index and every open handle, its position or cursor included, as
\* they were.
C11_UnsupportedChangeNothing ==
    [][call'.op \in Unsupported =>
          /\ call'.op = "write" => call'.ret = 0
          /\ call'.op # "write" => call'.ret = FALSE
          /\ UNCHANGED <<impl, fileNames_, fileData_, fileSizes_, fileCount_>>
          /\ UNCHANGED <<file, efile>>]_vars

\* a write of one byte or more to the File of an entry with data, while Mounted
C11_Witness ==
    /\ call.op = "write" /\ call.size > 0 /\ call.ret = 0
    /\ Mounted
    /\ file.kind = "file" /\ ~file.data.null /\ file.size > 0

\* ------------------------------------------------- directory handle claims
\* the children of the client's directory and their number
Children == file.entries
ChildCount == Len(file.entries)
\* the client's directory was opened by the EmbedFSImpl that is mounted
OwnerAlive == Mounted /\ ~hist.ownerFreed

\* C12: openNextChild on a Directory Handle with children c[0..k-1] and
\* cursor i < k moves the cursor to i + 1 and returns the handle the resolver
\* gives for the path of c[i], a handle whose path is that of c[i]; with the
\* cursor at k or beyond it returns the empty handle and leaves the cursor.
C12_OpenNextChild ==
    (call.op = "openNextFile" /\ file.kind = "dir" /\ OwnerAlive) =>
        LET i == call.from
        IN  IF i < ChildCount
            THEN /\ file.index = i + 1
                 /\ call.ret = EmbedFSImpl_open(impl.val, Ref(Children[i + 1].path))
                 /\ call.ret.path = Ref(Children[i + 1].path)
            ELSE /\ file.index = i
                 /\ call.ret = NoImpl

\* ------------------------------------------------------------ close claims
\* the empty handle: false as a bool, size 0 and position 0
EmptyFile == ~truthy(file) /\ file.size = 0 /\ file.pos = 0
EmptyEFile == efile.dataPtr_.null /\ efile.dataSize_ = 0 /\ efile.pos_ = 0

\* C13: close leaves a File Handle empty: its boolean conversion is false, its
\* size and position are 0 and a read returns nothing; a second close leaves
\* it as the first did.
C13_CloseResets ==
    /\ [](call.op = "close" => EmptyFile)
    /\ [](call.op = "eclose" => EmptyEFile)
    /\ []((EmptyEFile /\ call.op = "eread") => call.ret = 0)
    /\ []((EmptyEFile /\ call.op = "ereadByte") => call.ret = EndOfData)
    /\ [][(call.op = "close" /\ call'.op = "close") => file' = file]_vars
    /\ [][(call.op = "eclose" /\ call'.op = "eclose") => efile' = efile]_vars

\* close of an EmbedFSFile over two bytes after both were read
C13_Witness ==
    /\ call.op = "eclose"
    /\ EmptyEFile
    /\ Len(hist.ecopied) = 2

\* ------------------------------------------------------ normalization claims
\* s has no slash at its front and none at its back
SlashFreeEnds(s) == s = <<>> \/ (s[1] # "/" /\ s[Len(s)] # "/")

\* C14: for every path p, the empty one and those with several leading or
\* trailing slashes included, normalize(normalize(p)) = normalize(p), and the
\* normalized path has no leading and no trailing slash.
C14_NormalizeIdempotent ==
    QueryGiven =>
        /\ normalize(Query) = Query
        /\ SlashFreeEnds(Query)

\* the string of n slashes
Slashes(n) == [k \in 1..n |-> "/"]
\* q spells s: it is s or "/" before s, followed by any number of slashes
Spells(q, s) ==
    \E lead \in 0..1, n \in 0..Len(q) : q = Slashes(lead) \o s \o Slashes(n)
\* the index fs with a slash put before every name that begins without one
WithLeadingSlash(fs) ==
    [fs EXCEPT !.names_ =
        [i \in 1..fs.count_ |->
            IF fs.names_[i].null THEN NULL
            ELSE IF fs.names_[i].val # <<>> /\ fs.names_[i].val[1] = "/"
            THEN fs.names_[i]
            ELSE Ref(<<"/">> \o fs.names_[i].val)]]

\* what the handle h answers to its client: everything but the pointer to the
\* EmbedFSImpl that opened it
Answer(h) == [h EXCEPT !.owner = NULL]

\* C15: on every mounted index and for every path s without a slash at
\* either end, the queries s and "/" + s, each followed by any number of
\* slashes, get from open and from exists the answer s gets: the same kind,
\* data, size and children, and the display path "/" + s; and the answer is
\* the same on the index whose names are registered with a leading slash.
C15_SlashInsensitive ==
    QueryGiven =>
        LET q == call.path.val
        IN  \A i \in 1..Len(q) + 1 : \A j \in i - 1..Len(q) :
              LET s == SubSeq(q, i, j)
              IN  (SlashFreeEnds(s) /\ Spells(q, s)) =>
                    IF call.op = "open"
                    THEN /\ file = EmbedFSImpl_open(impl.val, Ref(s))
                         /\ file.kind # "null" => file.path = Ref(<<"/">> \o s)
                         /\ Answer(file) = Answer(EmbedFSImpl_open(
                                               WithLeadingSlash(impl.val), call.path))
                    ELSE /\ call.ret = EmbedFSImpl_exists(impl.val, Ref(s))
                         /\ call.ret = EmbedFSImpl_exists(WithLeadingSlash(impl.val),
                                                          call.path)

\* open("/a//") finds the data of the entry registered as "a"
C15_Witness ==
    /\ call.op = "open"
    /\ call.path = Ref(<<"/", "a", "/", "/">>)
    /\ impl.val.names_[1] = Ref(<<"a">>)
    /\ file.kind = "file" /\ ~file.data.null
    /\ file.path = Ref(<<"/", "a">>)

\* ------------------------------------------------------------ size claims
\* C16: totalBytes and usedBytes return the same value in every state: 0 while
\* Unmounted and, while Mounted, the sum of the sizes of all count entries,
\* those with a null name or null data included.
C16_TotalEqualsUsed ==
    call.op \in {"totalBytes", "usedBytes"} =>
        call.ret = IF Mounted
                   THEN SumOver(impl.val.sizes_, 1..impl.val.count_)
                   ELSE 0

\* usedBytes on an index that has an entry with a null name and an entry with
\* null data and a size
C16_Witness ==
    /\ call.op = "usedBytes"
    /\ Mounted
    /\ \E i \in 1..impl.val.count_ : impl.val.names_[i].null
    /\ \E i \in 1..impl.val.count_ :
          impl.val.data_[i].null /\ impl.val.sizes_[i] > 0
    /\ call.ret > 0

\* C17: seekTo(index) on a Directory Handle with k children returns true and
\* sets the cursor to min(index, k) when index >= 0, and returns false and
\* leaves the cursor when index < 0; the cursor of a directory is within
\* [0, k] after any sequence of openNextChild, nextChildName, rewind and seekTo.
C17_SeekDirClamps ==
    /\ call.op = "seekDir" =>
          IF call.position >= 0
          THEN call.ret /\ file.index = Min(call.position, ChildCount)
          ELSE ~call.ret /\ file.index = call.from
    /\ file.kind = "dir" => (0 <= file.index /\ file.index <= ChildCount)

\* seekDir beyond the last child of a directory with children, from before
\* the end
C17_Witness ==
    /\ call.op = "seekDir"
    /\ ChildCount >= 1
    /\ call.position > ChildCount
    /\ call.from < ChildCount
    /\ call.ret /\ file.index = ChildCount

\* C20: rewind sets the cursor to 0 from any cursor value and leaves the
\* children as they were; a complete listing of child paths and isDirectory
\* flags after it is the sequence the first complete listing after open gave.
C20_RewindRestarts ==
    /\ [][call'.op = "rewindDirectory" =>
            /\ file'.index = 0
            /\ file'.entries = file.entries
            /\ file'.path = file.path]_vars
    /\ []((/\ file.kind = "dir"
           /\ hist.fromStart /\ file.index = ChildCount
           /\ ~hist.first.null)
          => hist.listed = hist.first.val)

\* the second complete listing of a directory with a file and a directory
\* below it, after a first one and a rewind
C20_Witness ==
    /\ call.op = "getNextFileNameIsDir" /\ call.from = 1
    /\ hist.rewound /\ hist.fromStart
    /\ ~hist.first.null
    /\ ChildCount = 2 /\ file.index = 2
    /\ Len(hist.listed) = 2
    /\ hist.listed = hist.first.val
    /\ hist.listed[1].isDir # hist.listed[2].isDir

\* ------------------------------------------------------ read and seek claims
\* the handle is bound to data
FileBound == file.kind = "file" /\ ~file.data.null
EFileBound == ~efile.dataPtr_.null

\* C18: on a handle freshly opened on data of size N, reads of one byte or
\* more (and single-byte reads) eventually bring the position to N, having
\* copied exactly the N bytes of the data in order; every read after that
\* returns 0 (the single-byte read signals the end), and available() is 0
\* exactly when the position is N.
C18_ReadExhaustion ==
    /\ FileBound ~>
          [](/\ FileBound
             /\ file.pos = file.size
             /\ hist.copied = file.data.val)
    /\ EFileBound ~>
          [](/\ EFileBound
             /\ efile.pos_ = efile.dataSize_
             /\ hist.ecopied = efile.dataPtr_.val)
    /\ [](FileBound => hist.copied = SubSeq(file.data.val, 1, file.pos))
    /\ [](EFileBound => hist.ecopied = SubSeq(efile.dataPtr_.val, 1, efile.pos_))
    /\ []((FileBound /\ call.op = "read" /\ call.from = file.size) => call.ret = 0)
    /\ []((EFileBound /\ call.op = "eread" /\ call.from = efile.dataSize_)
          => call.ret = 0)
    /\ []((EFileBound /\ call.op = "ereadByte" /\ call.from = efile.dataSize_)
          => call.ret = EndOfData)
    /\ []((EFileBound /\ call.op = "eavailable")
          => (call.ret = 0 <=> efile.pos_ = efile.dataSize_))

\* a read at the end of two bytes of data, after both were copied by two reads
C18_Witness ==
    /\ FileBound
    /\ file.size = 2 /\ file.pos = 2
    /\ hist.copied = file.data.val
    /\ call.op = "read" /\ call.from = 2 /\ call.len > 0 /\ call.ret = 0

\* C19: 0 <= position <= size after any sequence of read, readByte, seek (any
\* mode, any 32-bit offset, wrapping sums included) and write; among these
\* only read and a successful seek change the position.
C19_PositionInRange ==
    /\ [](file.kind = "file" => (0 <= file.pos /\ file.pos <= file.size))
    /\ [](0 <= efile.pos_ /\ efile.pos_ <= efile.dataSize_)
    /\ [][(file'.pos # file.pos /\ call'.op # "close") =>
             (call'.op = "read" \/ (call'.op = "seek" /\ call'.ret))]_vars
    /\ [][(efile'.pos_ # efile.pos_ /\ call'.op # "eclose") =>
             (call'.op \in {"eread", "ereadByte"}
                \/ (call'.op = "eseek" /\ call'.ret))]_vars

\* a seek from the end by the largest offset, whose sum wraps in a size_t of
\* 32 bits and lands inside the data
C19_Witness ==
    /\ sizeBits = 32
    /\ call.op = "seek" /\ call.mode = "SeekEnd"
    /\ call.pos = U32(Half - 1, Half - 1)
    /\ call.ret
    /\ file.size = 2 /\ file.pos = 1

\* ------------------------------------------------------ enumeration claims
\* C21: on every mounted index, entries with null data included, each of the
\* first k openNextChild calls on a Directory Handle with k children returns a
\* valid handle: an invalid handle comes only at exhaustion, and the loop
\* while (child = dir.openNextFile()) visits all k children.
C21_LoopVisitsAllChildren ==
    /\ (call.op = "openNextFile" /\ file.kind = "dir" /\ OwnerAlive
          /\ call.from < ChildCount) => truthy(call.ret)
    /\ (call.op = "listDirectory" /\ OwnerAlive) =>
          Len(call.entries) = call.children

\* the directory of the client with its cursor back where the last call found it
Before == [file EXCEPT !.index = call.from]

\* C22: on every mounted index, for every Directory Handle and every child i,
\* the isDirectory flag that nextChildName reports for child i equals
\* isDirectory() of the handle openNextChild returns for child i, also when
\* the path of one entry is both a file and a prefix of another entry.
C22_ChildKindConsistent ==
    (call.op = "openNextFile" /\ file.kind = "dir" /\ OwnerAlive
       /\ call.from < ChildCount) =>
        EmbeddedDirImpl_getNextFileNameIsDir(Before, Ref(FALSE)).isDir.val
            = isDirectory(call.ret)

\* seg is one path segment: not empty and without a slash
IsSegment(seg) == seg # <<>> /\ \A n \in 1..Len(seg) : seg[n] # "/"
\* what a child path of the directory with display path D begins with
ChildPrefix(D) == IF D = <<"/">> THEN D ELSE D \o <<"/">>
\* path is D + "/" + seg (or "/" + seg below the root) for a segment seg
ExtendsBySegment(path, D) ==
    LET pre == ChildPrefix(D)
    IN  /\ Len(path) > Len(pre)
        /\ SubSeq(path, 1, Len(pre)) = pre
        /\ IsSegment(SubSeq(path, Len(pre) + 1, Len(path)))

\* the recursive walk of the claims from the directory h: open the next child
\* until the handle is invalid, walk every child that is a directory in the
\* same way, and collect the paths of the other children. stack holds the
\* paths of the directories being walked around h. The result is the paths
\* collected (files) and whether the walk came to an end (finished): a
\* directory that opens one of the directories around it, or itself, is walked
\* without end.
RECURSIVE Walk(_, _, _)
Walk(h, stack, files) ==
    LET r == EmbeddedDirImpl_openNextFile(h)
        entry == r.ret
    IN  IF ~truthy(entry) THEN [files |-> files, finished |-> TRUE]
        ELSE IF ~isDirectory(entry)
        THEN Walk(r.h, stack, files \cup {entry.path.val})
        ELSE IF entry.path \in stack \cup {h.path}
        THEN [files |-> files, finished |-> FALSE]
        ELSE LET below == Walk(entry, stack \cup {h.path}, files)
             IN  IF below.finished
                 THEN Walk(r.h, stack, below.files)
                 ELSE [files |-> below.files, finished |-> FALSE]

\* C23: on every mounted index, names with consecutive slashes included, each
\* child path of a Directory Handle with display path D is D + "/" + seg
\* ("/" + seg for the root) with seg one non-empty segment; opening a child
\* never gives D itself, and a recursive walk by openNextChild comes to an end.
C23_ChildrenExtendParent ==
    (file.kind = "dir" /\ OwnerAlive) =>
        /\ \A n \in 1..ChildCount : ExtendsBySegment(Children[n].path, file.path.val)
        /\ (call.op = "openNextFile" /\ call.from < ChildCount)
              => call.ret.path # file.path
        /\ Walk(EmbeddedDirImpl_rewindDirectory(file), {}, {}).finished

\* the display paths of the entries that have a name
Registered ==
    {<<"/">> \o normalize(impl.val.names_[i].val) :
        i \in {j \in 1..impl.val.count_ : ~impl.val.names_[j].null}}

\* C24: on every mounted index, the display paths of the File Handles reached
\* by listing from open("/") down into every directory, to exhaustion, are
\* exactly the paths "/" + normalize(name) of the entries with a name.
C24_ListingMatchesIndex ==
    /\ (call.op = "open" /\ file.kind = "dir" /\ file.path = Ref(<<"/">>)) =>
          LET reached == Walk(file, {}, {})
          IN  reached.finished /\ reached.files = Registered
    /\ (call.op = "open" /\ file.kind = "file" /\ file.path = Ref(<<"/">>)) =>
          (IF truthy(file) THEN {<<"/">>} ELSE {}) = Registered

====
